---- MODULE Spec2Model ----
(***************************************************************************)
(* The fetch handler of the R2 directory-listing worker (src/src/lib.rs).  *)
(* One request is handled per behaviour: the method check, the path        *)
(* decoding, the routing decision, the single storage call (the handler's  *)
(* only await), and the response built from what storage returned.         *)
(*                                                                         *)
(* Strings are sequences of bytes (naturals below 256); a String's order   *)
(* is the bytewise lexicographic order, as in Rust.                        *)
(*                                                                         *)
(* The BUCKET binding is taken to be configured (environment.bucket        *)
(* succeeds), upload instants are within chrono's range and a fetched      *)
(* object has its body, so the two expect()s on them do not fire; a        *)
(* failing storage call is modelled (ListError, GetError).                 *)
(***************************************************************************)
EXTENDS Integers, Sequences, FiniteSets

(* ------------------------------ bounds -------------------------------- *)

\* longest raw request path (in bytes, the leading '/' included)
MaxPathLen == 5
\* longest name of an object or sub-prefix stored next to the requested key
MaxNameLen == 1
\* most objects a bucket holds
MaxObjects == 2

(* ------------------------------ strings ------------------------------- *)

\* '/': the delimiter of keys and the character trimmed from paths
Slash == 47

\* the bytes raw request paths are drawn from: '/', 'a', '%', '2', 'F'
PathAlphabet == {Slash, 97, 37, 50, 70}

\* the bytes names in the bucket are drawn from: 'a'
NameAlphabet == {97}

SeqsUpTo(alphabet, n) == UNION {[1..k -> alphabet] : k \in 0..n}

\* str::starts_with
StartsWith(s, p) == Len(p) <= Len(s) /\ SubSeq(s, 1, Len(p)) = p

\* str::ends_with(char)
EndsWith(s, c) == Len(s) > 0 /\ s[Len(s)] = c

\* Ord for str: bytewise lexicographic, a proper prefix first
RECURSIVE StrLess(_, _)
StrLess(a, b) ==
    IF b = <<>> THEN FALSE
    ELSE IF a = <<>> THEN TRUE
    ELSE IF a[1] # b[1] THEN a[1] < b[1]
    ELSE StrLess(Tail(a), Tail(b))

\* str::trim_start_matches(char): every leading occurrence is removed
RECURSIVE TrimStartMatches(_, _)
TrimStartMatches(s, c) ==
    IF s # <<>> /\ s[1] = c THEN TrimStartMatches(Tail(s), c) ELSE s

\* a faulty variant of trim_end_matches: only one trailing occurrence is removed
TrimEndOne(s, c) == IF EndsWith(s, c) THEN SubSeq(s, 1, Len(s) - 1) ELSE s

\* str::trim_end_matches(char): every trailing occurrence is removed
RECURSIVE TrimEndMatches(_, _)
TrimEndMatches(s, c) ==
    IF EndsWith(s, c) THEN TrimEndMatches(SubSeq(s, 1, Len(s) - 1), c) ELSE s

\* str::rsplit_once(char): the parts before and after the last occurrence
RSplitOnce(s, c) ==
    LET at == {i \in 1..Len(s) : s[i] = c}
    IN  IF at = {} THEN [some |-> FALSE]
        ELSE LET i == CHOOSE i \in at : \A j \in at : j <= i
             IN  [some |-> TRUE, before |-> SubSeq(s, 1, i - 1),
                  after |-> SubSeq(s, i + 1, Len(s))]

\* str::strip_prefix: the rest after the prefix, None when it is no prefix
StripPrefix(s, p) ==
    IF StartsWith(s, p)
    THEN [some |-> TRUE, rest |-> SubSeq(s, Len(p) + 1, Len(s))]
    ELSE [some |-> FALSE]

(* --------------------------- percent decoding ------------------------- *)

\* the value of an ASCII hex digit, -1 for any other byte
FromHexDigit(b) ==
    IF b \in 48..57 THEN b - 48
    ELSE IF b \in 65..70 THEN b - 55
    ELSE IF b \in 97..102 THEN b - 87
    ELSE 0 - 1

\* urlencoding::decode_binary: "%XY" with two hex digits becomes one byte,
\* any other '%' stays as it is
RECURSIVE DecodeBinary(_)
DecodeBinary(s) ==
    IF s = <<>> THEN <<>>
    ELSE IF /\ s[1] = 37
            /\ Len(s) >= 3
            /\ FromHexDigit(s[2]) >= 0
            /\ FromHexDigit(s[3]) >= 0
         THEN <<16 * FromHexDigit(s[2]) + FromHexDigit(s[3])>>
                  \o DecodeBinary(SubSeq(s, 4, Len(s)))
         ELSE <<s[1]>> \o DecodeBinary(Tail(s))

IsCont(s, i) == i <= Len(s) /\ s[i] \in 128..191

\* String::from_utf8's validity check
RECURSIVE Utf8Valid(_)
Utf8Valid(s) ==
    IF s = <<>> THEN TRUE
    ELSE LET b == s[1] IN
         IF b < 128 THEN Utf8Valid(Tail(s))
         ELSE IF b \in 194..223
              THEN IsCont(s, 2) /\ Utf8Valid(SubSeq(s, 3, Len(s)))
         ELSE IF b \in 224..239
              THEN /\ IsCont(s, 2) /\ IsCont(s, 3)
                   /\ (b = 224 => s[2] >= 160)
                   /\ (b = 237 => s[2] <= 159)
                   /\ Utf8Valid(SubSeq(s, 4, Len(s)))
         ELSE IF b \in 240..244
              THEN /\ IsCont(s, 2) /\ IsCont(s, 3) /\ IsCont(s, 4)
                   /\ (b = 240 => s[2] >= 144)
                   /\ (b = 244 => s[2] <= 143)
                   /\ Utf8Valid(SubSeq(s, 5, Len(s)))
         ELSE FALSE

\* urlencoding::decode: the decoded bytes when they are UTF-8, an error otherwise
Decode(s) ==
    LET bytes == DecodeBinary(s)
    IN  IF Utf8Valid(bytes) THEN [ok |-> TRUE, value |-> bytes]
        ELSE [ok |-> FALSE]

(* ------------------------------ storage ------------------------------- *)

\* The bucket is storage's, not the handler's: when a call returns, the bucket
\* is any bucket of at most MaxObjects objects stored at or next to the
\* requested key: the key itself, a name under it, each of the two also with
\* a '/' after it, and the key without its last byte (which is not under it).

\* what follows the requested key in the keys stored under it
Suffixes ==
    LET names == SeqsUpTo(NameAlphabet, MaxNameLen)
    IN  names \cup {n \o <<Slash>> : n \in names}

\* the keys stored at or next to a key (a key is never empty)
KeysNear(key) ==
    ({key \o suffix : suffix \in Suffixes} \cup {SubSeq(key, 1, Len(key) - 1)})
        \ {<<>>}

\* a stored size is a 64-bit count of bytes, held as its two 32-bit words:
\* the size is hi * 2^32 + lo. The sizes objects are given: 1 byte and 2^32 bytes
Sizes == {[hi |-> 0, lo |-> 1], [hi |-> 1, lo |-> 0]}

\* upload instants, in milliseconds since the epoch
UploadedMillis == {0, 1500}

\* the sets of at most n of the keys
RECURSIVE KeySetsUpTo(_, _)
KeySetsUpTo(keys, n) ==
    IF n = 0 THEN {{}}
    ELSE LET smaller == KeySetsUpTo(keys, n - 1)
         IN  smaller \cup {ks \cup {k} : ks \in smaller, k \in keys}

\* the sets of keys a bucket can hold
KeySetsNear(key) == KeySetsUpTo(KeysNear(key), MaxObjects)

\* a bucket maps the keys it holds to the object's size and upload instant
BucketsNear(key) ==
    UNION {[ks -> [size : Sizes, uploaded : UploadedMillis]] : ks \in KeySetsNear(key)}

\* the strings of a set in ascending order
RECURSIVE SortedSeq(_)
SortedSeq(S) ==
    IF S = {} THEN <<>>
    ELSE LET m == CHOOSE x \in S : \A y \in S \ {x} : StrLess(x, y)
         IN  <<m>> \o SortedSeq(S \ {m})

\* index of the first occurrence of c in s, 0 when there is none
FirstIndex(s, c) ==
    IF \E i \in 1..Len(s) : s[i] = c
    THEN CHOOSE i \in 1..Len(s) : s[i] = c /\ \A j \in 1..(i - 1) : s[j] # c
    ELSE 0

\* bucket.list().delimiter("/").prefix(prefix): the keys under the prefix,
\* those with a delimiter after the prefix grouped into their sub-prefix
\* (up to and including that delimiter), the others returned as objects;
\* both in key order
List(bucket, prefix, delimiter) ==
    LET under == {k \in DOMAIN bucket : StartsWith(k, prefix)}
        rest(k) == SubSeq(k, Len(prefix) + 1, Len(k))
        grouped == {k \in under : FirstIndex(rest(k), delimiter) > 0}
        group(k) == SubSeq(k, 1, Len(prefix) + FirstIndex(rest(k), delimiter))
        plain == SortedSeq(under \ grouped)
    IN  [delimited_prefixes |-> SortedSeq({group(k) : k \in grouped}),
         objects |-> [i \in 1..Len(plain) |->
                         [key |-> plain[i],
                          size |-> bucket[plain[i]].size,
                          uploaded |-> bucket[plain[i]].uploaded]]]

\* bucket.get(key): the object when the bucket holds the key (held: the keys
\* of the bucket; the answer does not depend on the objects' metadata)
Get(held, key) ==
    IF key \in held THEN [some |-> TRUE, key |-> key]
    ELSE [some |-> FALSE, key |-> key]

(* ------------------------------ entries ------------------------------- *)

\* object.size() as u32: the low 32-bit word of the stored size
AsU32(size) == size.lo

\* NaiveDateTime::from_timestamp_millis(..).and_utc(): seconds and nanoseconds
FromTimestampMillis(ms) == <<ms \div 1000, (ms % 1000) * 1000000>>

\* EntryType::Directory carries no payload: its size and uploaded fields are
\* fixed fillers that no comparison and no row reads
Directory == [tag |-> "Directory", size |-> 0, uploaded |-> <<0, 0>>]

File(size, uploaded) == [tag |-> "File", size |-> size, uploaded |-> uploaded]

\* the entries collected from a list response: the sub-prefixes as
\* directories, chained with the objects as files
Collect(lr) ==
    [i \in 1..Len(lr.delimited_prefixes) |->
        [entry_type |-> Directory, key |-> lr.delimited_prefixes[i]]]
    \o
    [i \in 1..Len(lr.objects) |->
        [entry_type |-> File(AsU32(lr.objects[i].size),
                             FromTimestampMillis(lr.objects[i].uploaded)),
         key |-> lr.objects[i].key]]

\* chrono's Ord for DateTime
DateTimeLess(a, b) == a[1] < b[1] \/ (a[1] = b[1] /\ a[2] < b[2])

\* derived Ord of EntryType: the variants in declaration order, then the
\* fields of File in declaration order
EntryTypeLess(a, b) ==
    \/ a.tag = "Directory" /\ b.tag = "File"
    \/ /\ a.tag = "File" /\ b.tag = "File"
       /\ \/ a.size < b.size
          \/ a.size = b.size /\ DateTimeLess(a.uploaded, b.uploaded)

\* Ord of the tuple (EntryType, String)
EntryLess(a, b) ==
    \/ EntryTypeLess(a.entry_type, b.entry_type)
    \/ a.entry_type = b.entry_type /\ StrLess(a.key, b.key)

\* insertion keeping equal elements in their order (Vec::sort is stable)
RECURSIVE Insert(_, _)
Insert(e, sorted) ==
    IF sorted = <<>> THEN <<e>>
    ELSE IF EntryLess(e, sorted[1]) THEN <<e>> \o sorted
    ELSE <<sorted[1]>> \o Insert(e, Tail(sorted))

\* a faulty variant of the sort: the entries stay in the order storage gave
SortMissing(es) == es

\* entries.sort()
RECURSIVE Sort(_)
Sort(es) ==
    IF es = <<>> THEN <<>>
    ELSE Insert(es[Len(es)], Sort(SubSeq(es, 1, Len(es) - 1)))

(* ------------------------------ rendering ----------------------------- *)

\* humansize::format_size with DECIMAL units and two decimal places: the
\* value in hundredths of the unit, and the unit's power of 1000
FormatSize(size) ==
    LET exp == IF size < 1000 THEN 0
               ELSE IF size < 1000000 THEN 1
               ELSE IF size < 1000000000 THEN 2 ELSE 3
        unit == 1000 ^ exp
    IN  IF exp = 0 THEN [hundredths |-> size * 100, exp |-> 0]
        ELSE [hundredths |-> (size \div unit) * 100
                               + ((size % unit) * 100 + unit \div 2) \div unit,
              exp |-> exp]

\* uploaded.format(DATE_FORMAT): the instant to the second
FormatUploaded(uploaded) == uploaded[1]

\* the parent-directory row of the template: its link, when the display
\* prefix without its trailing '/'s still holds a '/'
ParentRows(readable_key_prefix) ==
    LET split == RSplitOnce(TrimEndMatches(readable_key_prefix, Slash), Slash)
    IN  IF split.some
        THEN <<[href |-> <<Slash>> \o split.before \o <<Slash>>,
                label |-> <<46, 46, Slash>>]>>
        ELSE <<>>

\* one row of the template's loop over the entries: the label is the key
\* without the key prefix
EntryRow(entry, key_prefix) ==
    IF entry.entry_type.tag = "File"
    THEN [tag |-> "File",
          href |-> <<Slash>> \o entry.key,
          label |-> StripPrefix(entry.key, key_prefix).rest,
          size |-> FormatSize(entry.entry_type.size),
          uploaded |-> FormatUploaded(entry.entry_type.uploaded)]
    ELSE [tag |-> "Directory",
          href |-> <<Slash>> \o entry.key,
          label |-> StripPrefix(entry.key, key_prefix).rest,
          size |-> FormatSize(0),
          uploaded |-> 0]

\* EntryList { .. }.to_string(): the document, or a panic when some key does
\* not start with the key prefix (expect("must be a prefix"))
EntryList(key_prefix, readable_key_prefix, entries) ==
    IF \E i \in 1..Len(entries) : ~StripPrefix(entries[i].key, key_prefix).some
    THEN [panic |-> TRUE]
    ELSE [panic |-> FALSE,
          title |-> readable_key_prefix,
          h1 |-> readable_key_prefix,
          parent |-> ParentRows(readable_key_prefix),
          rows |-> [i \in 1..Len(entries) |-> EntryRow(entries[i], key_prefix)]]

(* ------------------------------ the handler --------------------------- *)

VARIABLES
    request,               \* the inbound request: its method and raw path
    pc,                    \* where the handler is: start, list, get, done
    path,                  \* the decoded path
    key_prefix,            \* the decoded path without its leading '/'s
    readable_key_prefix,   \* the display prefix
    calls,                 \* the storage calls issued so far, in order
    returned,              \* how many of them have returned
    list_response,         \* what the list call returned
    get_response,          \* what the get call returned
    entries,               \* the entries handed to the template
    response               \* the handler's result

vars == <<request, pc, path, key_prefix, readable_key_prefix, calls, returned,
          list_response, get_response, entries, response>>

Methods == {"GET", "HEAD", "POST"}

\* raw request paths: a URL's path always starts with '/'
Paths == {p \in SeqsUpTo(PathAlphabet, MaxPathLen) : p # <<>> /\ p[1] = Slash}

NoResponse == [kind |-> "none", status |-> 0, body |-> [type |-> "none"]]

\* worker::Response::error(text, status)
ErrorResponse(text, status) ==
    [kind |-> "Response", status |-> status, body |-> [type |-> "text", text |-> text]]

\* Response::ok(html) with content-type text/html
HtmlResponse(doc) ==
    [kind |-> "Response", status |-> 200, body |-> [type |-> "html", doc |-> doc]]

\* Response::from_stream(object body)
StreamResponse(key) ==
    [kind |-> "Response", status |-> 200, body |-> [type |-> "stream", key |-> key]]

\* the handler returns Err(..): no Response is built by the handler
ErrResult(why) == [kind |-> "Err", status |-> 0, body |-> [type |-> why]]

\* the handler panics
PanicResult(why) == [kind |-> "Panic", status |-> 0, body |-> [type |-> why]]

\* a faulty variant of the method check: HEAD is let through as well
MethodAcceptedOrHead(method) == method \in {"GET", "HEAD"}

\* request.method() != Method::Get is rejected
MethodAccepted(method) == method = "GET"

\* a faulty variant of the key prefix: only the first '/' is removed
KeyPrefixOneSlash(decoded) == Tail(decoded)

\* path.trim_start_matches('/')
KeyPrefix(decoded) == TrimStartMatches(decoded, Slash)

\* a faulty variant of the display prefix: the root is not mapped to "/"
ReadableKeyPrefixNoRoot(prefix) == prefix

\* "/" for the empty key prefix, the key prefix otherwise
ReadableKeyPrefix(prefix) == IF prefix = <<>> THEN <<Slash>> ELSE prefix

\* readable_key_prefix.ends_with('/')
IsListing(readable) == EndsWith(readable, Slash)

\* a faulty variant of the emptiness check: an empty list is rendered too
NothingToListNever(es) == FALSE

\* an empty entry list is answered with 404 instead of a document
NothingToList(es) == es = <<>>

Init ==
    /\ request \in [method : Methods, path : Paths]
    /\ pc = "start"
    /\ path = <<>>
    /\ key_prefix = <<>>
    /\ readable_key_prefix = <<>>
    /\ calls = <<>>
    /\ returned = 0
    /\ list_response = [delimited_prefixes |-> <<>>, objects |-> <<>>]
    /\ get_response = [some |-> FALSE, key |-> <<>>]
    /\ entries = <<>>
    /\ response = NoResponse

\* a method other than GET: 400, before anything else is looked at
RejectMethod ==
    /\ pc = "start"
    /\ ~MethodAccepted(request.method)
    /\ response' = ErrorResponse("Bad Request", 400)
    /\ pc' = "done"
    /\ UNCHANGED <<request, path, key_prefix, readable_key_prefix, calls,
                   returned, list_response, get_response, entries>>

\* urlencoding::decode fails: the error is returned with `?`
DecodeError ==
    /\ pc = "start"
    /\ MethodAccepted(request.method)
    /\ ~Decode(request.path).ok
    /\ response' = ErrResult("RustError")
    /\ pc' = "done"
    /\ UNCHANGED <<request, path, key_prefix, readable_key_prefix, calls,
                   returned, list_response, get_response, entries>>

\* the display prefix ends with '/': the list call is issued and awaited
ListCall ==
    /\ pc = "start"
    /\ MethodAccepted(request.method)
    /\ Decode(request.path).ok
    /\ LET decoded == Decode(request.path).value
           prefix == KeyPrefix(decoded)
           readable == ReadableKeyPrefix(prefix)
       IN  /\ IsListing(readable)
           /\ path' = decoded
           /\ key_prefix' = prefix
           /\ readable_key_prefix' = readable
           /\ calls' = Append(calls, [op |-> "list", arg |-> prefix,
                                      delimiter |-> <<Slash>>])
    /\ pc' = "list"
    /\ UNCHANGED <<request, returned, list_response, get_response, entries,
                   response>>

\* otherwise the get call is issued and awaited
GetCall ==
    /\ pc = "start"
    /\ MethodAccepted(request.method)
    /\ Decode(request.path).ok
    /\ LET decoded == Decode(request.path).value
           prefix == KeyPrefix(decoded)
           readable == ReadableKeyPrefix(prefix)
       IN  /\ ~IsListing(readable)
           /\ path' = decoded
           /\ key_prefix' = prefix
           /\ readable_key_prefix' = readable
           /\ calls' = Append(calls, [op |-> "get", arg |-> prefix,
                                      delimiter |-> <<>>])
    /\ pc' = "get"
    /\ UNCHANGED <<request, returned, list_response, get_response, entries,
                   response>>

\* the list call fails: the error is returned with `?`
ListError ==
    /\ pc = "list"
    /\ returned' = returned + 1
    /\ response' = ErrResult("storage")
    /\ pc' = "done"
    /\ UNCHANGED <<request, path, key_prefix, readable_key_prefix, calls,
                   list_response, get_response, entries>>

\* a faulty variant of the list call's return: when nothing is listed, the
\* key is fetched as an object as well
ListReturnThenGet ==
    /\ pc = "list"
    /\ \E bucket \in BucketsNear(key_prefix) :
         LET lr == List(bucket, key_prefix, Slash)
             es == Collect(lr)
         IN  /\ list_response' = lr
             /\ IF NothingToList(es)
                THEN /\ entries' = es
                     /\ response' = response
                     /\ calls' = Append(calls, [op |-> "get", arg |-> key_prefix,
                                                delimiter |-> <<>>])
                     /\ pc' = "get"
                ELSE /\ entries' = Sort(es)
                     /\ response' = HtmlResponse(
                            EntryList(key_prefix, readable_key_prefix, Sort(es)))
                     /\ calls' = calls
                     /\ pc' = "done"
    /\ returned' = returned + 1
    /\ UNCHANGED <<request, path, key_prefix, readable_key_prefix, get_response>>

\* the list call returns: the entries are collected, and either there are
\* none (404) or they are sorted and rendered (200)
ListReturn ==
    /\ pc = "list"
    /\ \E bucket \in BucketsNear(key_prefix) :
       \E lr \in {List(bucket, key_prefix, Slash)} :
       \E es \in {Collect(lr)} :
         /\ list_response' = lr
         /\ IF NothingToList(es)
            THEN /\ entries' = es
                 /\ response' = ErrorResponse("Not Found.", 404)
            ELSE \E sorted \in {Sort(es)} :
                 \E doc \in {EntryList(key_prefix, readable_key_prefix, sorted)} :
                     /\ entries' = sorted
                     /\ response' = IF doc.panic
                                    THEN PanicResult("must be a prefix")
                                    ELSE HtmlResponse(doc)
    /\ returned' = returned + 1
    /\ pc' = "done"
    /\ UNCHANGED <<request, path, key_prefix, readable_key_prefix, calls,
                   get_response>>

\* the get call fails: the error is returned with `?`
GetError ==
    /\ pc = "get"
    /\ returned' = returned + 1
    /\ response' = ErrResult("storage")
    /\ pc' = "done"
    /\ UNCHANGED <<request, path, key_prefix, readable_key_prefix, calls,
                   list_response, get_response, entries>>

\* the get call returns: the object's stream, or 404 when there is none
GetReturn ==
    /\ pc = "get"
    /\ \E held \in KeySetsNear(key_prefix) :
         LET object == Get(held, key_prefix)
         IN  /\ get_response' = object
             /\ response' = IF object.some
                            THEN StreamResponse(object.key)
                            ELSE ErrorResponse("Not Found", 404)
    /\ returned' = returned + 1
    /\ pc' = "done"
    /\ UNCHANGED <<request, path, key_prefix, readable_key_prefix, calls,
                   list_response, entries>>

Next ==
    \/ RejectMethod
    \/ DecodeError
    \/ ListCall
    \/ GetCall
    \/ ListError
    \/ ListReturn
    \/ GetError
    \/ GetReturn

Spec == Init /\ [][Next]_vars

(* ------------------------------ properties ---------------------------- *)

IsGet == request.method = "GET"

\* the request's path percent-decodes, and what it decodes to
Decodable == Decode(request.path).ok
Decoded == Decode(request.path).value

\* the decoded path ends with '/'
TrailingSlash == Decoded[Len(Decoded)] = Slash

Issued(op) == \E i \in 1..Len(calls) : calls[i].op = op

IsHtml == response.kind = "Response" /\ response.body.type = "html"

IsStream == response.kind = "Response" /\ response.body.type = "stream"

Rows == response.body.doc.rows

\* C1: a GET request with a decodable path performs a listing if and only if
\* the decoded path ends with '/', and an object fetch otherwise: exactly one
\* of the two, never both and never neither.
C1_RouteByTrailingSlash ==
    IsGet /\ Decodable =>
        /\ pc = "start" => ENABLED (ListCall \/ GetCall)
        /\ pc # "start" =>
              /\ Len(calls) = 1
              /\ Issued("list") <=> TrailingSlash
              /\ Issued("get") <=> ~TrailingSlash

\* GET /a%2F decodes to /a/ and is listed
C1_Witness ==
    /\ request = [method |-> "GET", path |-> <<Slash, 97, 37, 50, 70>>]
    /\ pc = "list"
    /\ Issued("list")

\* C2 as stated: the key handed to storage is the decoded path with ONE
\* leading '/' removed and nothing else changed, and the display prefix is that
\* key, or "/" exactly when the key is empty.
C2_KeyDropsOneSlash ==
    calls # <<>> =>
        /\ calls[1].arg = Tail(Decoded)
        /\ readable_key_prefix = IF calls[1].arg = <<>> THEN <<Slash>> ELSE calls[1].arg

\* C2 amended: the key handed to storage is the decoded path with ALL of its
\* leading '/'s removed and nothing else changed (the key never starts with
\* '/'), and the display prefix is that key, or "/" exactly when the key is
\* empty.
C2_KeyDropsLeadingSlashes ==
    calls # <<>> =>
        LET key == calls[1].arg
        IN  /\ \E n \in 1..Len(Decoded) :
                  /\ \A i \in 1..n : Decoded[i] = Slash
                  /\ key = SubSeq(Decoded, n + 1, Len(Decoded))
            /\ key = <<>> \/ key[1] # Slash
            /\ key_prefix = key
            /\ readable_key_prefix = IF key = <<>> THEN <<Slash>> ELSE key

\* GET //a: two leading '/'s, fetched by the key "a"
C2_Witness ==
    /\ pc = "get"
    /\ Decoded = <<Slash, Slash, 97>>
    /\ calls[1].arg = <<97>>

\* the object storage returned under a key
Stored(key) ==
    CHOOSE o \in {list_response.objects[i] : i \in 1..Len(list_response.objects)} :
        o.key = key

\* the order of the data model, on two entries of a listing
RowBefore(a, b) ==
    \/ a.entry_type.tag = "Directory" /\ b.entry_type.tag = "File"
    \/ /\ a.entry_type.tag = "Directory" /\ b.entry_type.tag = "Directory"
       /\ StrLess(a.key, b.key)
    \/ /\ a.entry_type.tag = "File" /\ b.entry_type.tag = "File"
       /\ \/ a.entry_type.size < b.entry_type.size
          \/ /\ a.entry_type.size = b.entry_type.size
             /\ Stored(a.key).uploaded < Stored(b.key).uploaded
          \/ /\ a.entry_type.size = b.entry_type.size
             /\ Stored(a.key).uploaded = Stored(b.key).uploaded
             /\ StrLess(a.key, b.key)

\* C3: the rows of a rendered listing follow the order of the data model
\* (directories first, by key; then files by size, then by upload instant,
\* then by key), and they are a permutation of the entries storage returned.
C3_RowsInOrder ==
    IsHtml =>
        /\ Len(Rows) = Len(entries)
        /\ \A i \in 1..Len(Rows) :
              /\ Rows[i].href = <<Slash>> \o entries[i].key
              /\ Rows[i].tag = entries[i].entry_type.tag
        /\ \A i, j \in 1..Len(entries) : i < j => RowBefore(entries[i], entries[j])
        /\ Len(Rows) = Len(list_response.delimited_prefixes) + Len(list_response.objects)
        /\ \A i \in 1..Len(list_response.delimited_prefixes) :
              \E r \in 1..Len(Rows) :
                  /\ Rows[r].tag = "Directory"
                  /\ Rows[r].href = <<Slash>> \o list_response.delimited_prefixes[i]
        /\ \A i \in 1..Len(list_response.objects) :
              \E r \in 1..Len(Rows) :
                  /\ Rows[r].tag = "File"
                  /\ Rows[r].href = <<Slash>> \o list_response.objects[i].key

\* two files of equal size: the later upload has the smaller key, and is
\* rendered second
C3_Witness ==
    /\ IsHtml
    /\ Len(entries) = 2
    /\ entries[1].entry_type.tag = "File"
    /\ entries[2].entry_type.tag = "File"
    /\ entries[1].entry_type.size = entries[2].entry_type.size
    /\ Stored(entries[1].key).uploaded < Stored(entries[2].key).uploaded
    /\ StrLess(entries[2].key, entries[1].key)

\* C4: a GET request with a decodable path that is answered is answered with
\* 404 exactly when it is a listing for which storage returned nothing or a
\* fetch of a key storage does not hold, and with 200 otherwise: a listing
\* with at least one entry row, or the object's stream. No empty table.
C4_NotFoundExactly ==
    pc = "done" /\ IsGet /\ Decodable /\ response.kind = "Response" =>
        /\ response.status \in {200, 404}
        /\ response.status = 404 <=>
              \/ /\ Issued("list")
                 /\ list_response.delimited_prefixes = <<>>
                 /\ list_response.objects = <<>>
              \/ Issued("get") /\ ~get_response.some
        /\ response.status = 200 =>
              \/ IsHtml /\ Issued("list") /\ Len(Rows) >= 1
              \/ IsStream /\ Issued("get") /\ response.body.key = calls[1].arg
        /\ response.status = 404 => response.body.type = "text"

\* a listing of a prefix nothing is stored under
C4_Witness ==
    /\ pc = "done"
    /\ Issued("list")
    /\ response.kind = "Response"
    /\ response.status = 404
    /\ key_prefix = <<97, Slash>>

\* C5: in every rendered listing, stripping the query prefix from an entry's
\* key gives a non-empty label, and the query prefix followed by the label is
\* the key again.
C5_LabelNonEmptyRoundTrip ==
    IsHtml =>
        \A i \in 1..Len(Rows) :
            /\ Rows[i].label # <<>>
            /\ <<Slash>> \o calls[1].arg \o Rows[i].label = Rows[i].href

\* the part of s before its last '/'
BeforeLastSlash(s) ==
    SubSeq(s, 1, (CHOOSE i \in 1..Len(s) :
                     s[i] = Slash /\ \A j \in (i + 1)..Len(s) : s[j] # Slash) - 1)

HasSlash(s) == \E i \in 1..Len(s) : s[i] = Slash

\* the parent rows the rule of C6 asks for, from the trimmed display prefix
ParentRule(trimmed) ==
    IF HasSlash(trimmed)
    THEN /\ Len(response.body.doc.parent) = 1
         /\ response.body.doc.parent[1].href
                = <<Slash>> \o BeforeLastSlash(trimmed) \o <<Slash>>
    ELSE response.body.doc.parent = <<>>

\* C6 as stated: with ONE trailing '/' trimmed from the display prefix, the root
\* listing has no parent row, a listing whose trimmed display prefix holds a
\* '/' has exactly one, linking to '/' + the part before the last '/' + '/',
\* and any other listing has none.
C6_ParentTrimsOneSlash ==
    IsHtml =>
        IF readable_key_prefix = <<Slash>>
        THEN response.body.doc.parent = <<>>
        ELSE ParentRule(SubSeq(readable_key_prefix, 1, Len(readable_key_prefix) - 1))

\* C6 amended: with ALL trailing '/'s trimmed from the display prefix, a
\* listing whose trimmed display prefix holds a '/' has exactly one parent row,
\* linking to '/' + the part before the last '/' + '/', and any other listing,
\* the root listing among them, has none.
C6_ParentTrimsAllSlashes ==
    IsHtml =>
        LET r == readable_key_prefix
            n == CHOOSE i \in 0..Len(r) :
                     /\ i = 0 \/ r[i] # Slash
                     /\ \A j \in (i + 1)..Len(r) : r[j] = Slash
        IN  ParentRule(SubSeq(r, 1, n))

\* the listing of a/a/ links to /a/
C6_Witness ==
    /\ IsHtml
    /\ readable_key_prefix = <<97, Slash, 97, Slash>>
    /\ Len(response.body.doc.parent) = 1
    /\ response.body.doc.parent[1].href = <<Slash, 97, Slash>>

\* C7: a request whose path fails to decode is answered with a 4xx response,
\* and no listing or fetch is made for it.
C7_DecodeFailureIs4xx ==
    pc = "done" /\ IsGet /\ ~Decodable =>
        /\ response.kind = "Response"
        /\ response.status \in 400..499
        /\ calls = <<>>

\* C8: every request whose method is not GET is rejected with 400, whatever
\* its path, before anything else happens; a listing, an object stream or a
\* 404 only ever answers a GET request.
C8_OnlyGet ==
    /\ ~IsGet =>
          /\ pc \in {"start", "done"}
          /\ calls = <<>>
          /\ pc = "done" => response = ErrorResponse("Bad Request", 400)
    /\ response.kind = "Response" /\ response.status \in {200, 404} => IsGet
    /\ IsHtml \/ IsStream => IsGet

\* a POST to a path that does not decode is rejected for its method
C8_Witness ==
    /\ request = [method |-> "POST", path |-> <<Slash, 37, 70, 70>>]
    /\ pc = "done"
    /\ response.status = 400

\* C9: a request issues at most one storage call: a list call only for a
\* listing request, a get call only for a fetch request, none for a request
\* rejected for its method or its path; and the response is produced only
\* after the call has returned.
C9_AtMostOneCall ==
    /\ Len(calls) <= 1
    /\ returned <= Len(calls)
    /\ calls # <<>> => IsGet /\ Decodable
    /\ Issued("list") => TrailingSlash /\ ~Issued("get")
    /\ Issued("get") => ~TrailingSlash
    /\ response # NoResponse => pc = "done" /\ returned = Len(calls)
    /\ pc = "done" => response # NoResponse

\* a fetch answered with the object's stream after its one get call returned
C9_Witness ==
    /\ pc = "done"
    /\ IsStream
    /\ calls = <<[op |-> "get", arg |-> <<97>>, delimiter |-> <<>>]>>
    /\ returned = 1

\* the entry of the listing made from a stored object
EntryOf(key) ==
    CHOOSE e \in {entries[i] : i \in 1..Len(entries)} :
        e.key = key /\ e.entry_type.tag = "File"

\* one stored size is below another
SizeBelow(a, b) == a.hi < b.hi \/ (a.hi = b.hi /\ a.lo < b.lo)

\* C10: the size held in an object's File entry is the object's stored size,
\* for every size storage reports, and so a larger object is never listed
\* before a smaller one.
C10_EntrySizeIsStoredSize ==
    IsHtml =>
        /\ \A i \in 1..Len(list_response.objects) :
              list_response.objects[i].size
                  = [hi |-> 0, lo |-> EntryOf(list_response.objects[i].key).entry_type.size]
        /\ \A i, j \in 1..Len(entries) :
              /\ i < j
              /\ entries[i].entry_type.tag = "File"
              /\ entries[j].entry_type.tag = "File"
              => ~SizeBelow(Stored(entries[j].key).size, Stored(entries[i].key).size)

====
